---- MODULE Spec2Model ----
(***************************************************************************)
(* mkube-console: the Aggregator over a fixed set of NodeClients, the      *)
(* remote nodes they talk to, and the health checker.                      *)
(*                                                                         *)
(*   internal/cluster/aggregator.go   Aggregator                           *)
(*   internal/cluster/node_client     NodeClient (Ping, ListPods, ...)     *)
(*   cmd/mkube-console/main.go        construction, RunHealthChecker       *)
(*                                                                         *)
(* One step of a call is one outbound HTTP request of a NodeClient (or one *)
(* read of a cached health flag), so that calls, the health checker and    *)
(* the remote nodes interleave the way the goroutines do.                  *)
(***************************************************************************)
EXTENDS Integers, Sequences, FiniteSets, Bags, TLC

VARIABLES
    registry,   \* DOMAIN of Aggregator.clients: the configured node names
    healthy,    \* NodeClient.healthy, per node
    lastPing,   \* NodeClient.lastPing, per node (0 is the zero time.Time)
    now,        \* time.Now()
    pods,       \* remote node: the items its /api/v1/pods answers, in its order
    reach,      \* remote node: whether a request to it is answered at all
    req,        \* per caller: the Aggregator call in flight (or the last result)
    calls,      \* per caller: the NodeClient requests the call has issued so far
    mon,        \* RunHealthChecker: position, remaining clients of the pass
    probedOk,   \* per caller: the nodes found unhealthy when its GetClusterSummary began
                \* and probed successfully before it returned
    resolved    \* the owner the last GetPod resolved, while no pod has been placed or removed since

vars == <<registry, healthy, lastPing, now, pods, reach, req, calls, mon, probedOk, resolved>>

----------------------------------------------------------------------------
(* Bounds and inputs *)

\* The clock readings told apart: time.Now() runs from 1 to MaxTime.
MaxTime == 2

\* Node names a configuration may list, and one name no configuration lists.
NodeNames == {"A", "B", "C"}
UnknownName == "ghost"

\* pod.Spec.NodeName == "" and a nil *NodeClient.
NoNode == ""

\* pod.Annotations == nil
NoAnn == "<nil>"

\* The pods that exist anywhere: identity (ns, name), status.phase and the value
\* the remote node itself sends for the annotation mkube.io/node.
PodUniverse ==
    { [ns |-> "default", name |-> "web", phase |-> "Running", ann |-> NoAnn],
      [ns |-> "kube",    name |-> "db",  phase |-> "Pending", ann |-> "elsewhere"] }

PodKeys == { [ns |-> p.ns, name |-> p.name] : p \in PodUniverse }

KeyOf(p) == [ns |-> p.ns, name |-> p.name]

\* The concurrent callers of the Aggregator (HTTP handler goroutines).
Callers == {1, 2}

----------------------------------------------------------------------------
(* Helpers *)

Range(s) == { s[i] : i \in DOMAIN s }

\* The orders a `for _, c := range a.clients` may produce: Go randomises map
\* iteration per range statement.
Perms(S) ==
    { s \in [1..Cardinality(S) -> S] : \A i, j \in 1..Cardinality(S) : i # j => s[i] # s[j] }

SeqToBag(s) == [ x \in Range(s) |-> Cardinality({ i \in DOMAIN s : s[i] = x }) ]

RECURSIVE SumBags(_, _)
SumBags(f, S) ==
    IF S = {} THEN EmptyBag
    ELSE LET n == CHOOSE x \in S : TRUE IN f[n] (+) SumBags(f, S \ {n})

\* Sequences without repetition over the universe: what a node may hold
\* (a node serves one pod per namespace/name).
Injective(s) == \A i, j \in DOMAIN s : i # j => s[i] # s[j]

PodLists ==
    { s \in UNION { [1..k -> PodUniverse] : k \in 0..Cardinality(PodUniverse) } : Injective(s) }

HasPod(n, key) == \E i \in DOMAIN pods[n] : KeyOf(pods[n][i]) = key

PodAt(n, key) == pods[n][CHOOSE i \in DOMAIN pods[n] : KeyOf(pods[n][i]) = key]

Without(s, key) == SelectSeq(s, LAMBDA p : KeyOf(p) # key)

----------------------------------------------------------------------------
(* NodeClient: one outbound request each, answered by the remote node *)

\* httpClient.Do: a transport error when the node is unreachable.
Transport(n) == reach[n]

\* A client that turns a failed list request into an empty list.
ListPodsEmptyOnError(n) ==
    [ok |-> TRUE, items |-> IF Transport(n) THEN pods[n] ELSE <<>>]

\* NodeClient.ListPods via getJSON
ListPods(n) ==
    IF Transport(n) THEN [ok |-> TRUE, items |-> pods[n]]
    ELSE [ok |-> FALSE, items |-> <<>>]

\* NodeClient.GetPod via getJSON: a 404 (status >= 400) when the node has no such pod
GetPodOn(n, key) ==
    IF Transport(n) /\ HasPod(n, key) THEN [ok |-> TRUE, items |-> <<PodAt(n, key)>>]
    ELSE [ok |-> FALSE, items |-> <<>>]

\* NodeClient.GetNode via getJSON: the node object of /api/v1/nodes/<c.Name>
GetNodeOn(n) ==
    IF Transport(n) THEN [ok |-> TRUE, items |-> <<[kind |-> "Node", name |-> n]>>]
    ELSE [ok |-> FALSE, items |-> <<>>]

\* NodeClient.CreatePod via postJSON: a 409 when the node already has the pod
CreateOn(n, pod) ==
    IF Transport(n) /\ ~HasPod(n, KeyOf(pod)) THEN [ok |-> TRUE, items |-> <<pod>>]
    ELSE [ok |-> FALSE, items |-> <<>>]

\* NodeClient.DeletePod / NodeClient.GetPodLog: status >= 400 when there is no such pod
ItemOn(n, key) == Transport(n) /\ HasPod(n, key)

\* One entry of the request log of a call.
Call(n, kind, ok, count) == [node |-> n, kind |-> kind, ok |-> ok, count |-> count]

----------------------------------------------------------------------------
(* State of one Aggregator call *)

NoKey == [ns |-> "", name |-> ""]

\* ClusterSummary before the first client is visited (aggregator.go:228).
NoSummary == [NodeCount |-> 0, HealthyNodes |-> 0, PodCount |-> 0, RunningPods |-> 0, Nodes |-> <<>>]

\* No call in flight. Field by field: the operation and its position; its
\* arguments (key, pod.Spec.NodeName); the `clients` slice and the loop index;
\* the goroutines of a fan-out still running; the result accumulated / returned;
\* minPods and target of the placement loop; the owner GetPod returned; the
\* error returned; the ClusterSummary under construction. Two records of what the
\* call read: the clients whose health flag it found false (at aggregator.go:164,
\* or when GetClusterSummary began) and the clients it counted as healthy (:239).
Idle ==
    [ op |-> "none", pc |-> "idle", key |-> NoKey, target |-> NoNode,
      order |-> <<>>, idx |-> 0, pending |-> {}, acc |-> <<>>,
      minPods |-> 0, sel |-> NoNode, owner |-> NoNode, err |-> "nil",
      summary |-> NoSummary, unhealthySeen |-> {}, counted |-> {} ]

\* A caller may start a call when it has none in flight.
Free(c) == req[c].pc \in {"idle", "done"}

NoResolved == [key |-> NoKey, owner |-> NoNode]

----------------------------------------------------------------------------
(* Construction: main.go builds one NodeClient per configured node *)

\* A client constructed with its flag false.
NewNodeClientUnhealthy(n) == [healthy |-> FALSE, lastPing |-> 0]

\* NewNodeClient: healthy = true, lastPing the zero time.
NewNodeClient(n) == [healthy |-> TRUE, lastPing |-> 0]

\* NewAggregator over the configured names; each remote node holds one of the lists.
Construct(names, lists) ==
    /\ registry = names
    /\ healthy = [n \in names |-> NewNodeClient(n).healthy]
    /\ lastPing = [n \in names |-> NewNodeClient(n).lastPing]
    /\ now = 1
    /\ pods \in [names -> lists]
    /\ reach = [n \in names |-> TRUE]
    /\ req = [c \in Callers |-> Idle]
    /\ calls = [c \in Callers |-> <<>>]
    /\ mon = [pc |-> "boot", todo |-> <<>>, failed |-> {},
             probes |-> [n \in names |-> 0], ctx |-> "live"]
    /\ probedOk = [c \in Callers |-> {}]
    /\ resolved = NoResolved

----------------------------------------------------------------------------
(* The remote nodes *)

\* A node becomes unreachable, or reachable again.
ReachToggle(n) ==
    /\ n \in registry
    /\ reach' = [reach EXCEPT ![n] = ~reach[n]]
    /\ UNCHANGED <<registry, healthy, lastPing, now, pods, req, calls, mon, probedOk, resolved>>

----------------------------------------------------------------------------
(* Aggregator.ListAllPods / Aggregator.ListAllNodes *)

\* A decoration that writes the annotation only when the remote sent none.
DecorateIfAbsent(pod, n) == IF pod.ann = NoAnn THEN [pod EXCEPT !.ann = n] ELSE pod

\* aggregator.go:76-79: the annotation mkube.io/node is set to c.Name.
Decorate(pod, n) == [pod EXCEPT !.ann = n]

DecorateAll(items, n) == [i \in DOMAIN items |-> Decorate(items[i], n)]

\* A merge that appends a node's items last to first.
AppendAllReversed(acc, items) ==
    acc \o [i \in DOMAIN items |-> items[Len(items) + 1 - i]]

\* A merge that keeps only the list of the goroutine that finished last.
AppendAllOverwrite(acc, items) == items

\* aggregator.go:80: allPods = append(allPods, pod), item by item under mu.
AppendAll(acc, items) == acc \o items

\* A snapshot that leaves out the clients whose cached flag is false.
FanOutHealthy == { n \in registry : healthy[n] }

\* aggregator.go:50-53 (and 93-96): the snapshot holds every client of the map.
FanOutClients == registry

\* aggregator.go:49-66: snapshot the clients, one goroutine per client.
StartListAllPods(c) ==
    /\ Free(c)
    /\ req' = [req EXCEPT ![c] = [Idle EXCEPT !.op = "ListAllPods", !.pc = "fan",
                                              !.pending = FanOutClients]]
    /\ calls' = [calls EXCEPT ![c] = <<>>]
    /\ UNCHANGED <<registry, healthy, lastPing, now, pods, reach, mon, probedOk, resolved>>

\* A goroutine that clears the cached flag of a node whose list call failed.
ListPodsTaskMarking(c, n) ==
    /\ req[c].op = "ListAllPods" /\ req[c].pc = "fan"
    /\ n \in req[c].pending
    /\ LET r == ListPods(n) IN
        /\ req' = [req EXCEPT ![c].pending = @ \ {n},
                              ![c].acc = IF r.ok THEN AppendAll(@, DecorateAll(r.items, n)) ELSE @]
        /\ calls' = [calls EXCEPT ![c] = Append(@, Call(n, "list", r.ok, Len(r.items)))]
        /\ healthy' = IF r.ok THEN healthy ELSE [healthy EXCEPT ![n] = FALSE]
    /\ UNCHANGED <<registry, lastPing, now, pods, reach, mon, probedOk, resolved>>

\* aggregator.go:67-84: one goroutine lists its node and appends under the mutex;
\* an error is logged and the goroutine returns nil.
ListPodsTask(c, n) ==
    /\ req[c].op = "ListAllPods" /\ req[c].pc = "fan"
    /\ n \in req[c].pending
    /\ LET r == ListPods(n) IN
        /\ req' = [req EXCEPT ![c].pending = @ \ {n},
                              ![c].acc = IF r.ok THEN AppendAll(@, DecorateAll(r.items, n)) ELSE @]
        /\ calls' = [calls EXCEPT ![c] = Append(@, Call(n, "list", r.ok, Len(r.items)))]
    /\ UNCHANGED <<registry, healthy, lastPing, now, pods, reach, mon, probedOk, resolved>>

\* aggregator.go:91-104
StartListAllNodes(c) ==
    /\ Free(c)
    /\ req' = [req EXCEPT ![c] = [Idle EXCEPT !.op = "ListAllNodes", !.pc = "fan",
                                              !.pending = FanOutClients]]
    /\ calls' = [calls EXCEPT ![c] = <<>>]
    /\ UNCHANGED <<registry, healthy, lastPing, now, pods, reach, mon, probedOk, resolved>>

\* aggregator.go:105-115
GetNodeTask(c, n) ==
    /\ req[c].op = "ListAllNodes" /\ req[c].pc = "fan"
    /\ n \in req[c].pending
    /\ LET r == GetNodeOn(n) IN
        /\ req' = [req EXCEPT ![c].pending = @ \ {n},
                              ![c].acc = IF r.ok THEN AppendAll(@, r.items) ELSE @]
        /\ calls' = [calls EXCEPT ![c] = Append(@, Call(n, "node", r.ok, Len(r.items)))]
    /\ UNCHANGED <<registry, healthy, lastPing, now, pods, reach, mon, probedOk, resolved>>

\* A fan-out that returns what it has when the first goroutine has finished.
FanOutReturnEarly(c) ==
    /\ req[c].pc = "fan"
    /\ req[c].pending # FanOutClients
    /\ req' = [req EXCEPT ![c].pc = "done", ![c].err = "nil"]
    /\ UNCHANGED <<registry, healthy, lastPing, now, pods, reach, calls, mon, probedOk, resolved>>

\* aggregator.go:86-87 and 117-118: g.Wait() returns when every goroutine has
\* returned; the call returns the merged slice and a nil error.
FanOutReturn(c) ==
    /\ req[c].pc = "fan"
    /\ req[c].pending = {}
    /\ req' = [req EXCEPT ![c].pc = "done", ![c].err = "nil"]
    /\ UNCHANGED <<registry, healthy, lastPing, now, pods, reach, calls, mon, probedOk, resolved>>

----------------------------------------------------------------------------
(* Fan-out reads against three nodes *)

InitFanOut == Construct(NodeNames, PodLists)

NextFanOut ==
    \/ \E n \in NodeNames : ReachToggle(n)
    \/ StartListAllPods(1)
    \/ \E n \in NodeNames : ListPodsTask(1, n)
    \/ StartListAllNodes(1)
    \/ \E n \in NodeNames : GetNodeTask(1, n)
    \/ FanOutReturn(1)

SpecFanOut == InitFanOut /\ [][NextFanOut]_vars

\* The nodes whose request of the given kind succeeded during the call of c.
Served(c, kind) ==
    { calls[c][i].node : i \in { j \in DOMAIN calls[c] : calls[c][j].kind = kind /\ calls[c][j].ok } }

\* The nodes the call of c sent a request of the given kind to.
Asked(c, kind) ==
    { calls[c][i].node : i \in { j \in DOMAIN calls[c] : calls[c][j].kind = kind } }

\* What node n answers to a list, each item carrying mkube.io/node = n.
TaggedBag(n) == SeqToBag([i \in DOMAIN pods[n] |-> [pods[n][i] EXCEPT !.ann = n]])

NodeObjectBag(n) == SeqToBag(<<[kind |-> "Node", name |-> n]>>)

\* C1: a finished fan-out list call returns exactly the multiset union of the items
\* of the nodes whose list call succeeded, nothing of the failing nodes, every pod
\* annotated with the name of the client that produced it, and a nil error however
\* many nodes failed (ListAllPods; ListAllNodes with each node's node object).
C1_FanOutUnion ==
    \A c \in Callers :
        /\ (req[c].op = "ListAllPods" /\ req[c].pc = "done") =>
              /\ req[c].err = "nil"
              /\ SeqToBag(req[c].acc)
                   = SumBags([n \in registry |-> TaggedBag(n)], Served(c, "list"))
        /\ (req[c].op = "ListAllNodes" /\ req[c].pc = "done") =>
              /\ req[c].err = "nil"
              /\ SeqToBag(req[c].acc)
                   = SumBags([n \in registry |-> NodeObjectBag(n)], Served(c, "node"))

\* Three nodes, exactly one of them failing although it holds pods, the other two
\* contributing at least two pods between them.
C1_Witness ==
    \E c \in Callers :
        /\ req[c].op = "ListAllPods" /\ req[c].pc = "done"
        /\ Cardinality(registry) = 3
        /\ Cardinality(Served(c, "list")) = 2
        /\ \E n \in registry \ Served(c, "list") : pods[n] # <<>>
        /\ Len(req[c].acc) >= 2

----------------------------------------------------------------------------
(* Aggregator.GetPod, Aggregator.DeletePod, Aggregator.GetPodLog *)

\* aggregator.go:132: the scan stops at the first client whose GetPod returns no error.
Found(r) == r.ok

\* An owner taken from the head of the snapshot instead of the client that answered.
OwnerNameFirst(order, idx) == order[1]

\* aggregator.go:137: the owner returned beside the pod is the client's name.
OwnerName(order, idx) == order[idx]

\* aggregator.go:123-128, entered directly (GetPod) or through DeletePod:187 and
\* GetPodLog:204: the clients are snapshotted in the order the map range yields.
StartLookup(c, op, key) ==
    /\ Free(c)
    /\ \E order \in Perms(registry) :
        req' = [req EXCEPT ![c] = [Idle EXCEPT !.op = op, !.pc = "scan", !.key = key,
                                               !.order = order, !.idx = 1]]
    /\ calls' = [calls EXCEPT ![c] = <<>>]
    /\ UNCHANGED <<registry, healthy, lastPing, now, pods, reach, mon, probedOk, resolved>>

\* aggregator.go:130-140: one iteration of the scan. A success decorates the pod and
\* returns it with the owner; any error moves on to the next client; after the last
\* client the call fails with "pod ns/name not found on any node".
ScanStep(c) ==
    /\ req[c].pc = "scan"
    /\ LET n == req[c].order[req[c].idx]
           r == GetPodOn(n, req[c].key)
           owner == OwnerName(req[c].order, req[c].idx)
       IN
        /\ calls' = [calls EXCEPT ![c] = Append(@, Call(n, "get", r.ok, Len(r.items)))]
        /\ IF Found(r)
           THEN /\ req' = [req EXCEPT ![c].acc = <<Decorate(r.items[1], n)>>,
                                      ![c].owner = owner,
                                      ![c].pc = IF req[c].op = "GetPod" THEN "done" ELSE "delegate"]
                /\ resolved' = IF req[c].op = "GetPod"
                               THEN [key |-> req[c].key, owner |-> owner]
                               ELSE resolved
           ELSE IF req[c].idx = Len(req[c].order)
           THEN /\ req' = [req EXCEPT ![c].pc = "done", ![c].err = "NotFound"]
                /\ resolved' = IF req[c].op = "GetPod" THEN NoResolved ELSE resolved
           ELSE /\ req' = [req EXCEPT ![c].idx = @ + 1]
                /\ UNCHANGED resolved
    /\ UNCHANGED <<registry, healthy, lastPing, now, pods, reach, mon, probedOk>>

\* A delegation that ignores the resolved owner and takes some registered client.
DelegateToAny(owner) == CHOOSE n \in registry : n # owner

\* aggregator.go:192-199 and 209-216: the client of the owner's name.
DelegateTo(owner) == owner

\* aggregator.go:192-199: DeletePod looks the owner up and deletes on it.
DeleteDelegate(c) ==
    /\ req[c].op = "DeletePod" /\ req[c].pc = "delegate"
    /\ LET n == DelegateTo(req[c].owner)
           ok == ItemOn(n, req[c].key)
       IN
        IF n \notin registry
        THEN /\ req' = [req EXCEPT ![c].pc = "done", ![c].err = "NodeNotFound"]
             /\ UNCHANGED <<calls, pods, resolved>>
        ELSE /\ calls' = [calls EXCEPT ![c] = Append(@, Call(n, "delete", ok, 0))]
             /\ pods' = IF ok THEN [pods EXCEPT ![n] = Without(@, req[c].key)] ELSE pods
             /\ resolved' = IF ok THEN NoResolved ELSE resolved
             /\ req' = [req EXCEPT ![c].pc = "done",
                                   ![c].err = IF ok THEN "nil" ELSE "CommunicationError"]
    /\ UNCHANGED <<registry, healthy, lastPing, now, reach, mon, probedOk>>

\* aggregator.go:209-216: GetPodLog looks the owner up and opens the log stream on it.
LogDelegate(c) ==
    /\ req[c].op = "GetPodLog" /\ req[c].pc = "delegate"
    /\ LET n == DelegateTo(req[c].owner)
           ok == ItemOn(n, req[c].key)
       IN
        IF n \notin registry
        THEN /\ req' = [req EXCEPT ![c].pc = "done", ![c].err = "NodeNotFound"]
             /\ UNCHANGED calls
        ELSE /\ calls' = [calls EXCEPT ![c] = Append(@, Call(n, "log", ok, 0))]
             /\ req' = [req EXCEPT ![c].pc = "done",
                                   ![c].err = IF ok THEN "nil" ELSE "CommunicationError"]
    /\ UNCHANGED <<registry, healthy, lastPing, now, pods, reach, mon, probedOk, resolved>>

----------------------------------------------------------------------------
(* GetPod against three nodes *)

InitLookup == Construct(NodeNames, PodLists)

NextLookup ==
    \/ \E n \in NodeNames : ReachToggle(n)
    \/ \E key \in PodKeys : StartLookup(1, "GetPod", key)
    \/ ScanStep(1)

SpecLookup == InitLookup /\ [][NextLookup]_vars

----------------------------------------------------------------------------
(* GetPod, DeletePod and GetPodLog against two nodes *)

InitOwner == Construct({"A", "B"}, PodLists)

NextOwner ==
    \/ \E n \in NodeNames : ReachToggle(n)
    \/ \E key \in PodKeys : StartLookup(1, "GetPod", key)
    \/ \E key \in PodKeys : StartLookup(1, "DeletePod", key)
    \/ \E key \in PodKeys : StartLookup(1, "GetPodLog", key)
    \/ ScanStep(1)
    \/ DeleteDelegate(1)
    \/ LogDelegate(1)

SpecOwner == InitOwner /\ [][NextOwner]_vars

\* The nodes that hold a pod of the given identity.
Holders(key) == { n \in registry : HasPod(n, key) }

\* C2: a successful GetPod has asked the clients one at a time in the order of its
\* snapshot, every client before the last failed, the last one succeeded and is the
\* owner returned, the pod returned is that node's pod annotated with that node's
\* name, and no client after it was asked.
C2_FirstSuccess ==
    \A c \in Callers :
        (req[c].op = "GetPod" /\ req[c].pc = "done" /\ req[c].err = "nil") =>
            LET k == Len(calls[c]) IN
            /\ k >= 1 /\ k <= Len(req[c].order)
            /\ \A i \in 1..k :
                /\ calls[c][i].kind = "get"
                /\ calls[c][i].node = req[c].order[i]
                /\ calls[c][i].ok <=> (i = k)
            /\ req[c].owner = req[c].order[k]
            /\ HasPod(req[c].owner, req[c].key)
            /\ req[c].acc = <<[PodAt(req[c].owner, req[c].key) EXCEPT !.ann = req[c].order[k]]>>

\* The second client of three answered, and the third, which holds the pod as
\* well, was never asked.
C2_Witness ==
    \E c \in Callers :
        /\ req[c].op = "GetPod" /\ req[c].pc = "done" /\ req[c].err = "nil"
        /\ Len(req[c].order) = 3
        /\ Len(calls[c]) = 2
        /\ HasPod(req[c].order[3], req[c].key)
        /\ req[c].order[3] \notin Asked(c, "get")

\* C3: GetPod returns the not-found error only after every node has been tried and
\* only when no node holds a pod of that namespace/name.
C3_NotFoundOnlyIfAbsent ==
    \A c \in Callers :
        (req[c].op = "GetPod" /\ req[c].pc = "done" /\ req[c].err = "NotFound") =>
            /\ Asked(c, "get") = registry
            /\ Holders(req[c].key) = {}

\* The step in which DeletePod or GetPodLog sends its request to the owner it resolved.
Delegates(c) ==
    /\ req[c].op \in {"DeletePod", "GetPodLog"}
    /\ req[c].pc = "delegate"
    /\ req'[c].pc = "done"
    /\ Len(calls'[c]) = Len(calls[c]) + 1

\* A GetPod of the same identity has resolved an owner, and the placement of the
\* pods has not changed since.
ResolvedFor(c) == resolved.key = req[c].key /\ resolved.owner # NoNode

\* C8 as stated: DeletePod and GetPodLog delegate to the owner the preceding GetPod
\* resolved, for every pod identity, also one that several nodes hold.
C8_SameOwnerAlways ==
    [][ \A c \in Callers :
          (Delegates(c) /\ ResolvedFor(c)) =>
              calls'[c][Len(calls'[c])].node = resolved.owner ]_vars

\* C8 amended: DeletePod and GetPodLog delegate to the owner the preceding GetPod
\* resolved, for every pod identity that exactly one node holds.
C8_SameOwnerWhenUnique ==
    [][ \A c \in Callers :
          (Delegates(c) /\ ResolvedFor(c) /\ Cardinality(Holders(req[c].key)) = 1) =>
              calls'[c][Len(calls'[c])].node = resolved.owner ]_vars

\* GetPodLog has opened the stream on the owner a preceding GetPod resolved, for
\* a pod that one node holds.
C8_Witness ==
    \E c \in Callers :
        /\ req[c].op = "GetPodLog" /\ req[c].pc = "done" /\ req[c].err = "nil"
        /\ resolved.key = req[c].key
        /\ resolved.owner = req[c].owner
        /\ Cardinality(Holders(req[c].key)) = 1
        /\ calls[c][Len(calls[c])] = Call(resolved.owner, "log", TRUE, 0)

----------------------------------------------------------------------------
(* NodeClient.Ping and Aggregator.RunHealthChecker / pingAll *)

\* A probe whose failure leaves the cached flag as it was.
PingHealthyKeep(n, ok) == IF ok THEN TRUE ELSE healthy[n]

\* node_client Ping: healthy = false on every failure path (lines 40, 45, 50),
\* healthy = true after a 200 (line 53).
PingHealthy(n, ok) == ok

\* A probe that stamps lastPing whatever the outcome.
PingLastPingAlways(n, ok) == now

\* node_client Ping: lastPing = time.Now() after a 200 only (line 54).
PingLastPing(n, ok) == IF ok THEN now ELSE lastPing[n]

\* No client probed yet in this pass.
NoProbes == [n \in registry |-> 0]

\* The context handed to RunHealthChecker has been cancelled (main.go:29).
Cancelled == mon.ctx = "done"

\* GET /healthz with the monitor's context: answered with 200 when the node is
\* reachable; a request under a cancelled context fails (node_client 43-46).
Healthz(n) == Transport(n) /\ ~Cancelled

\* A monitor that goes to the interval loop without the initial pass.
MonBootNoInitial ==
    /\ mon.pc = "boot"
    /\ mon' = [mon EXCEPT !.pc = "wait"]
    /\ UNCHANGED <<registry, healthy, lastPing, now, pods, reach, req, calls, probedOk, resolved>>

\* main.go:44 and aggregator.go:257-262: the goroutine starts and enters the
\* initial pingAll, which snapshots the clients (aggregator.go:275-280).
MonBoot ==
    /\ mon.pc = "boot"
    /\ \E order \in Perms(registry) :
        mon' = [mon EXCEPT !.pc = "initial", !.todo = order,
                           !.failed = {}, !.probes = NoProbes]
    /\ UNCHANGED <<registry, healthy, lastPing, now, pods, reach, req, calls, probedOk, resolved>>

\* A pass that returns at the first failed probe.
MonProbeAbort ==
    /\ mon.pc \in {"initial", "pass"}
    /\ LET n == Head(mon.todo)
           ok == Healthz(n)
       IN
        /\ healthy' = [healthy EXCEPT ![n] = PingHealthy(n, ok)]
        /\ lastPing' = [lastPing EXCEPT ![n] = PingLastPing(n, ok)]
        /\ mon' = [mon EXCEPT
                     !.pc = IF Len(mon.todo) = 1 \/ ~ok THEN "wait" ELSE mon.pc,
                     !.todo = IF ok THEN Tail(mon.todo) ELSE <<>>,
                     !.failed = IF ok THEN mon.failed ELSE mon.failed \cup {n},
                     !.probes = [mon.probes EXCEPT ![n] = @ + 1]]
        /\ probedOk' = [c \in Callers |->
                          IF ok /\ req[c].op = "GetClusterSummary" /\ req[c].pc # "done"
                                /\ n \in req[c].unhealthySeen
                          THEN probedOk[c] \cup {n} ELSE probedOk[c]]
    /\ UNCHANGED <<registry, now, pods, reach, req, calls, resolved>>

\* aggregator.go:282-286: the next client of the pass is probed; a failure is
\* logged. After the last client pingAll returns and the loop waits in select.
MonProbe ==
    /\ mon.pc \in {"initial", "pass"}
    /\ LET n == Head(mon.todo)
           ok == Healthz(n)
       IN
        /\ healthy' = [healthy EXCEPT ![n] = PingHealthy(n, ok)]
        /\ lastPing' = [lastPing EXCEPT ![n] = PingLastPing(n, ok)]
        /\ mon' = [mon EXCEPT
                     !.pc = IF Len(mon.todo) = 1 THEN "wait" ELSE mon.pc,
                     !.todo = Tail(mon.todo),
                     !.failed = IF ok THEN mon.failed ELSE mon.failed \cup {n},
                     !.probes = [mon.probes EXCEPT ![n] = @ + 1]]
        /\ probedOk' = [c \in Callers |->
                          IF ok /\ req[c].op = "GetClusterSummary" /\ req[c].pc # "done"
                                /\ n \in req[c].unhealthySeen
                          THEN probedOk[c] \cup {n} ELSE probedOk[c]]
    /\ UNCHANGED <<registry, now, pods, reach, req, calls, resolved>>

\* aggregator.go:268-269: the ticker fires and the next pingAll begins.
MonTick ==
    /\ mon.pc = "wait"
    /\ \E order \in Perms(registry) :
        mon' = [mon EXCEPT !.pc = "pass", !.todo = order,
                           !.failed = {}, !.probes = NoProbes]
    /\ UNCHANGED <<registry, healthy, lastPing, now, pods, reach, req, calls, probedOk, resolved>>

\* A loop that never takes the ctx.Done() case.
MonStopNever ==
    /\ FALSE
    /\ UNCHANGED vars

\* aggregator.go:266-267: the select takes the ctx.Done() case and
\* RunHealthChecker returns.
MonStop ==
    /\ mon.pc = "wait"
    /\ Cancelled
    /\ mon' = [mon EXCEPT !.pc = "stopped"]
    /\ UNCHANGED <<registry, healthy, lastPing, now, pods, reach, req, calls, probedOk, resolved>>

\* main.go:29: SIGINT or SIGTERM cancels the context of signal.NotifyContext.
Cancel ==
    /\ ~Cancelled
    /\ mon' = [mon EXCEPT !.ctx = "done"]
    /\ UNCHANGED <<registry, healthy, lastPing, now, pods, reach, req, calls, probedOk, resolved>>

\* Time passes.
Advance ==
    /\ now < MaxTime
    /\ now' = now + 1
    /\ UNCHANGED <<registry, healthy, lastPing, pods, reach, req, calls, mon, probedOk, resolved>>

----------------------------------------------------------------------------
(* Aggregator.CreatePod *)

\* int(^uint(0) >> 1) where int has 32 bits; no list is that long.
MaxInt == 2147483647

\* The pod a create request carries, by its identity.
PodOf(key) == CHOOSE p \in PodUniverse : KeyOf(p) = key

\* A router that never looks at spec.nodeName.
RouteByNameNever(target) == FALSE

\* aggregator.go:152: pod.Spec.NodeName != ""
RouteByName(target) == target # NoNode

\* A lookup that takes every name for a registered one.
RegisteredAny(name) == TRUE

\* aggregator.go:153: c, ok := a.clients[pod.Spec.NodeName]
Registered(name) == name \in registry

\* A poll that asks unhealthy clients as well.
IsHealthyAlways(n) == TRUE

\* node_client IsHealthy: the cached flag.
IsHealthy(n) == healthy[n]

\* A comparison that lets a later client with the same count win.
FewerOrEqual(count, minPods) == count <= minPods

\* aggregator.go:171: len(list.Items) < minPods
Fewer(count, minPods) == count < minPods

\* A CreatePod that takes the registry lock exclusively: it starts only when no
\* other CreatePod is under way.
StartCreatePodExclusive(c, key, target) ==
    /\ Free(c)
    /\ \A d \in Callers \ {c} : Free(d)
    /\ LET base == [Idle EXCEPT !.op = "CreatePod", !.key = key, !.target = target] IN
        IF RouteByName(target)
        THEN IF Registered(target)
             THEN req' = [req EXCEPT ![c] = [base EXCEPT !.pc = "create", !.sel = target]]
             ELSE req' = [req EXCEPT ![c] = [base EXCEPT !.pc = "done", !.err = "NodeNotFound"]]
        ELSE \E order \in Perms(registry) :
                req' = [req EXCEPT ![c] = [base EXCEPT !.pc = "poll", !.order = order,
                                                       !.idx = 1, !.minPods = MaxInt]]
    /\ calls' = [calls EXCEPT ![c] = <<>>]
    /\ UNCHANGED <<registry, healthy, lastPing, now, pods, reach, mon, probedOk, resolved>>

\* aggregator.go:145-162: under the read lock, route by spec.nodeName when it is
\* set ("node %q not found" when the registry has no such name), otherwise begin
\* the least-pods loop over the clients in the order the map range yields.
StartCreatePod(c, key, target) ==
    /\ Free(c)
    /\ LET base == [Idle EXCEPT !.op = "CreatePod", !.key = key, !.target = target] IN
        IF RouteByName(target)
        THEN IF Registered(target)
             THEN req' = [req EXCEPT ![c] = [base EXCEPT !.pc = "create", !.sel = target]]
             ELSE req' = [req EXCEPT ![c] = [base EXCEPT !.pc = "done", !.err = "NodeNotFound"]]
        ELSE \E order \in Perms(registry) :
                req' = [req EXCEPT ![c] = [base EXCEPT !.pc = "poll", !.order = order,
                                                       !.idx = 1, !.minPods = MaxInt]]
    /\ calls' = [calls EXCEPT ![c] = <<>>]
    /\ UNCHANGED <<registry, healthy, lastPing, now, pods, reach, mon, probedOk, resolved>>

\* aggregator.go:163-180: one iteration of the least-pods loop: an unhealthy client
\* and a client whose list fails are passed over; a client with fewer pods than
\* minPods becomes the target. After the last client: "no healthy nodes
\* available" when there is no target, the create otherwise.
PollStep(c) ==
    /\ req[c].op = "CreatePod" /\ req[c].pc = "poll"
    /\ LET n == req[c].order[req[c].idx]
           asked == IsHealthy(n)
           r == ListPods(n)
           better == asked /\ r.ok /\ Fewer(Len(r.items), req[c].minPods)
           sel == IF better THEN n ELSE req[c].sel
           last == req[c].idx = Len(req[c].order)
       IN
        /\ calls' = [calls EXCEPT ![c] =
                        IF asked THEN Append(@, Call(n, "list", r.ok, Len(r.items))) ELSE @]
        /\ req' = [req EXCEPT
                     ![c].unhealthySeen = IF healthy[n] THEN @ ELSE @ \cup {n},
                     ![c].minPods = IF better THEN Len(r.items) ELSE @,
                     ![c].sel = sel,
                     ![c].idx = IF last THEN @ ELSE @ + 1,
                     ![c].pc = IF ~last THEN "poll" ELSE IF sel = NoNode THEN "done" ELSE "create",
                     ![c].err = IF last /\ sel = NoNode THEN "NoHealthyNodes" ELSE @]
    /\ UNCHANGED <<registry, healthy, lastPing, now, pods, reach, mon, probedOk, resolved>>

\* A create that, when the selected node fails, is sent once more to another node.
CreateStepFallback(c) ==
    /\ req[c].op = "CreatePod" /\ req[c].pc = "create"
    /\ LET n == req[c].sel
           r == CreateOn(n, PodOf(req[c].key))
       IN
        /\ calls' = [calls EXCEPT ![c] =
                        IF r.ok THEN Append(@, Call(n, "create", TRUE, 0))
                        ELSE @ \o << Call(n, "create", FALSE, 0),
                                     Call(CHOOSE m \in registry : m # n, "create", FALSE, 0) >>]
        /\ pods' = IF r.ok THEN [pods EXCEPT ![n] = Append(@, r.items[1])] ELSE pods
        /\ resolved' = IF r.ok THEN NoResolved ELSE resolved
        /\ req' = [req EXCEPT ![c].pc = "done", ![c].acc = r.items,
                              ![c].err = IF r.ok THEN "nil" ELSE "CommunicationError"]
    /\ UNCHANGED <<registry, healthy, lastPing, now, reach, mon, probedOk>>

\* aggregator.go:182: target.CreatePod(ctx, pod), its result returned verbatim.
CreateStep(c) ==
    /\ req[c].op = "CreatePod" /\ req[c].pc = "create"
    /\ LET n == req[c].sel
           r == CreateOn(n, PodOf(req[c].key))
       IN
        /\ calls' = [calls EXCEPT ![c] = Append(@, Call(n, "create", r.ok, 0))]
        /\ pods' = IF r.ok THEN [pods EXCEPT ![n] = Append(@, r.items[1])] ELSE pods
        /\ resolved' = IF r.ok THEN NoResolved ELSE resolved
        /\ req' = [req EXCEPT ![c].pc = "done", ![c].acc = r.items,
                              ![c].err = IF r.ok THEN "nil" ELSE "CommunicationError"]
    /\ UNCHANGED <<registry, healthy, lastPing, now, reach, mon, probedOk>>

----------------------------------------------------------------------------
(* Placement against two nodes, with the health checker running *)

InitPlacement == Construct({"A", "B"}, PodLists)

NextPlacement ==
    \/ \E n \in NodeNames : ReachToggle(n)
    \/ MonBoot
    \/ MonProbe
    \/ MonTick
    \/ \E key \in PodKeys, target \in {"A", "B", UnknownName, NoNode} : StartCreatePod(1, key, target)
    \/ PollStep(1)
    \/ CreateStep(1)

SpecPlacement == InitPlacement /\ [][NextPlacement]_vars

\* The positions of the successful list polls in the request log of c.
Polled(c) == { i \in DOMAIN calls[c] : calls[c][i].kind = "list" /\ calls[c][i].ok }

\* C4: a CreatePod whose spec names a registered node issues exactly one request,
\* the create on that node, and no request of any kind to another node.
C4_ExplicitTargetOnly ==
    \A c \in Callers :
        (req[c].op = "CreatePod" /\ req[c].target \in registry) =>
            /\ \A i \in DOMAIN calls[c] :
                  calls[c][i].node = req[c].target /\ calls[c][i].kind = "create"
            /\ Len(calls[c]) = IF req[c].pc = "done" THEN 1 ELSE 0

\* Node B was named and got the create, while node A, healthy and emptier, got nothing.
C4_Witness ==
    \E c \in Callers :
        /\ req[c].op = "CreatePod" /\ req[c].pc = "done" /\ req[c].err = "nil"
        /\ req[c].target = "B"
        /\ healthy["A"] /\ reach["A"] /\ Len(pods["A"]) < Len(pods["B"])
        /\ calls[c] = <<Call("B", "create", TRUE, 0)>>

\* C5: a CreatePod without a target that gets as far as the create sends it to a
\* node it found healthy, whose polled pod count is the smallest of the counts
\* polled in this call, and which is the first in poll order among the nodes
\* with that count.
C5_FewestPodsFirst ==
    \A c \in Callers :
        (req[c].op = "CreatePod" /\ req[c].target = NoNode /\ req[c].sel # NoNode
            /\ req[c].pc \in {"create", "done"}) =>
            /\ req[c].sel \notin req[c].unhealthySeen
            /\ \E i \in Polled(c) :
                /\ calls[c][i].node = req[c].sel
                /\ \A j \in Polled(c) :
                    /\ calls[c][i].count <= calls[c][j].count
                    /\ calls[c][j].count = calls[c][i].count => i <= j
            /\ req[c].pc = "done" =>
                /\ calls[c][Len(calls[c])].kind = "create"
                /\ calls[c][Len(calls[c])].node = req[c].sel
                /\ Cardinality({ i \in DOMAIN calls[c] : calls[c][i].kind = "create" }) = 1

\* Both nodes were polled with one pod each, and the first one polled got the pod.
C5_Witness ==
    \E c \in Callers :
        /\ req[c].op = "CreatePod" /\ req[c].target = NoNode
        /\ req[c].pc = "done" /\ req[c].err = "nil"
        /\ Len(calls[c]) = 3
        /\ calls[c][1].ok /\ calls[c][2].ok
        /\ calls[c][1].count = 1 /\ calls[c][2].count = 1
        /\ calls[c][3] = Call(calls[c][1].node, "create", TRUE, 0)

\* C6: a CreatePod without a target that found the health flag of every node false
\* fails with NoHealthyNodes and has issued no request at all.
C6_NoHealthyNodes ==
    \A c \in Callers :
        (req[c].op = "CreatePod" /\ req[c].target = NoNode /\ req[c].pc = "done"
            /\ req[c].unhealthySeen = registry) =>
            /\ req[c].err = "NoHealthyNodes"
            /\ calls[c] = <<>>

\* Every flag was found false although both nodes are reachable again.
C6_Witness ==
    \E c \in Callers :
        /\ req[c].op = "CreatePod" /\ req[c].target = NoNode /\ req[c].pc = "done"
        /\ req[c].unhealthySeen = registry
        /\ \A n \in registry : reach[n]
        /\ req[c].err = "NoHealthyNodes"

\* The step in which caller c calls CreatePod with a target the registry does not have.
CreatesOnUnknown(c) ==
    /\ Free(c)
    /\ req'[c] # req[c] \/ calls'[c] # calls[c]
    /\ req'[c].op = "CreatePod"
    /\ req'[c].target \notin registry \cup {NoNode}

\* C7: a CreatePod that names a node the registry does not have fails with
\* NodeNotFound at once, issues no request, and leaves the registry and every
\* health field as they were.
C7_UnknownTarget ==
    [][ \A c \in Callers :
          CreatesOnUnknown(c) =>
              /\ req'[c].pc = "done"
              /\ req'[c].err = "NodeNotFound"
              /\ calls'[c] = <<>>
              /\ UNCHANGED <<registry, healthy, lastPing>> ]_vars

\* The call for the unknown name has failed while a node had been found unhealthy.
C7_Witness ==
    \E c \in Callers :
        /\ req[c].op = "CreatePod" /\ req[c].pc = "done"
        /\ req[c].target = UnknownName
        /\ req[c].err = "NodeNotFound"
        /\ calls[c] = <<>>
        /\ \E n \in registry : ~healthy[n]

----------------------------------------------------------------------------
(* Aggregator.GetClusterSummary *)

\* corev1.PodRunning
PodRunning == "Running"

\* A count that takes every listed pod for a running one.
RunningAll(items) == Len(items)

\* aggregator.go:244-248: the listed pods whose Status.Phase is PodRunning.
Running(items) == Cardinality({ i \in DOMAIN items : items[i].phase = PodRunning })

\* aggregator.go:221-230: snapshot the clients, NodeCount = len(clients).
StartSummary(c) ==
    /\ Free(c)
    /\ \E order \in Perms(registry) :
        req' = [req EXCEPT ![c] =
                  [Idle EXCEPT !.op = "GetClusterSummary", !.pc = "sumread",
                               !.order = order, !.idx = 1,
                               !.summary = [NoSummary EXCEPT !.NodeCount = Len(order)],
                               !.unhealthySeen = { n \in registry : ~healthy[n] }]]
    /\ calls' = [calls EXCEPT ![c] = <<>>]
    /\ probedOk' = [probedOk EXCEPT ![c] = {}]
    /\ UNCHANGED <<registry, healthy, lastPing, now, pods, reach, mon, resolved>>

\* aggregator.go:233-237: the NodeSummary of the next client is filled from the
\* cached flag and lastPing.
SummaryRead(c) ==
    /\ req[c].op = "GetClusterSummary" /\ req[c].pc = "sumread"
    /\ LET n == req[c].order[req[c].idx] IN
        req' = [req EXCEPT ![c].pc = "sumcount",
                           ![c].acc = <<[Name |-> n, Healthy |-> IsHealthy(n),
                                         PodCount |-> 0, LastPing |-> lastPing[n]]>>]
    /\ UNCHANGED <<registry, healthy, lastPing, now, pods, reach, calls, mon, probedOk, resolved>>

\* aggregator.go:238-250: the flag is read a second time for HealthyNodes, the
\* node's pods are listed (a failure leaves the counts as they are) and the
\* NodeSummary is appended; after the last client the summary is returned.
SummaryCount(c) ==
    /\ req[c].op = "GetClusterSummary" /\ req[c].pc = "sumcount"
    /\ LET n == req[c].order[req[c].idx]
           h == IsHealthy(n)
           r == ListPods(n)
           ns == [req[c].acc[1] EXCEPT !.PodCount = IF r.ok THEN Len(r.items) ELSE @]
           last == req[c].idx = Len(req[c].order)
       IN
        /\ calls' = [calls EXCEPT ![c] = Append(@, Call(n, "list", r.ok, Len(r.items)))]
        /\ req' = [req EXCEPT
                     ![c].summary.HealthyNodes = IF h THEN @ + 1 ELSE @,
                     ![c].summary.PodCount = IF r.ok THEN @ + Len(r.items) ELSE @,
                     ![c].summary.RunningPods = IF r.ok THEN @ + Running(r.items) ELSE @,
                     ![c].summary.Nodes = Append(@, ns),
                     ![c].counted = IF h THEN @ \cup {n} ELSE @,
                     ![c].acc = <<>>,
                     ![c].idx = IF last THEN @ ELSE @ + 1,
                     ![c].pc = IF last THEN "done" ELSE "sumread"]
    /\ UNCHANGED <<registry, healthy, lastPing, now, pods, reach, mon, probedOk, resolved>>

----------------------------------------------------------------------------
(* The health checker beside cluster summaries, two nodes *)

\* A list of one pending pod and a list of two pods, one of them running.
SomeLists == { s \in PodLists : s # <<>> /\ s[Len(s)].name = "db" }

InitHealth == Construct({"A", "B"}, SomeLists)

NextHealth ==
    \/ \E n \in NodeNames : ReachToggle(n)
    \/ MonBoot
    \/ MonProbe
    \/ MonTick
    \/ StartSummary(1)
    \/ SummaryRead(1)
    \/ SummaryCount(1)

SpecHealth == InitHealth /\ [][NextHealth]_vars

\* The NodeSummary entries that a finished summary holds for node n.
EntriesOf(c, n) ==
    { i \in DOMAIN req[c].summary.Nodes : req[c].summary.Nodes[i].Name = n }

\* A pass has finished: every node whose probe failed in it has its flag false.
FailedProbeClearsFlag ==
    mon.pc = "wait" => \A n \in mon.failed : ~healthy[n]

\* The summary of c reports node n unhealthy and did not count it.
ReportedUnhealthy(c, n) ==
    /\ n \notin req[c].counted
    /\ EntriesOf(c, n) # {}
    /\ \A i \in EntriesOf(c, n) : ~req[c].summary.Nodes[i].Healthy

\* C9 as stated: a node whose probe failed has its flag false when the pass
\* finishes, and a GetClusterSummary that starts while the flag is false (before
\* any later successful probe) reports the node unhealthy and does not count it.
C9_ReflectedIfStartedBefore ==
    /\ FailedProbeClearsFlag
    /\ \A c \in Callers :
        (req[c].op = "GetClusterSummary" /\ req[c].pc = "done") =>
            /\ req[c].summary.HealthyNodes = Cardinality(req[c].counted)
            /\ \A n \in req[c].unhealthySeen : ReportedUnhealthy(c, n)

\* C9 amended: a node whose probe failed has its flag false when the pass
\* finishes, and a GetClusterSummary that starts while the flag is false and
\* returns before any later successful probe of the node reports the node
\* unhealthy and does not count it.
C9_ReflectedIfReturnedBefore ==
    /\ FailedProbeClearsFlag
    /\ \A c \in Callers :
        (req[c].op = "GetClusterSummary" /\ req[c].pc = "done") =>
            /\ req[c].summary.HealthyNodes = Cardinality(req[c].counted)
            /\ \A n \in req[c].unhealthySeen \ probedOk[c] : ReportedUnhealthy(c, n)

\* The probe of a node failed in the pass just finished, the node answers again,
\* and the summary taken since counts the other node only.
C9_Witness ==
    \E c \in Callers, n \in registry :
        /\ req[c].op = "GetClusterSummary" /\ req[c].pc = "done"
        /\ mon.pc = "wait" /\ n \in mon.failed
        /\ n \in req[c].unhealthySeen \ probedOk[c]
        /\ reach[n]
        /\ ReportedUnhealthy(c, n)
        /\ req[c].summary.HealthyNodes = 1
        /\ req[c].summary.NodeCount = 2

----------------------------------------------------------------------------
(* The health checker beside pod lists, two nodes *)

InitListHealth == Construct({"A", "B"}, PodLists)

NextListHealth ==
    \/ \E n \in NodeNames : ReachToggle(n)
    \/ MonBoot
    \/ MonProbe
    \/ MonTick
    \/ StartListAllPods(1)
    \/ \E n \in NodeNames : ListPodsTask(1, n)
    \/ FanOutReturn(1)

SpecListHealth == InitListHealth /\ [][NextListHealth]_vars


\* The pods of node n in the result of c.
FromNode(c, n) == { i \in DOMAIN req[c].acc : req[c].acc[i].ann = n }

\* The step in which the goroutine for node n adds pods to the result of c.
AddsPodsOf(c, n) ==
    /\ req[c].op = "ListAllPods"
    /\ n \in req[c].pending
    /\ n \notin req'[c].pending
    /\ Len(req'[c].acc) > Len(req[c].acc)

\* C10 as stated: while the cached health flag of a node is false (no probe of it
\* has succeeded since), no ListAllPods result receives pods of that node.
C10_UnhealthyNotListed ==
    [][ \A c \in Callers, n \in registry : AddsPodsOf(c, n) => healthy[n] ]_vars

\* C10 amended: ListAllPods asks every node whatever its cached health flag, and
\* the pods of a node are in the result exactly when the node's list call of
\* this ListAllPods succeeded.
C10_ListedIffAnswered ==
    \A c \in Callers :
        (req[c].op = "ListAllPods" /\ req[c].pc = "done") =>
            /\ Asked(c, "list") = registry
            /\ \A n \in registry :
                FromNode(c, n) # {} <=> (n \in Served(c, "list") /\ pods[n] # <<>>)

\* A node whose flag is false answered the list call and its pods are in the result.
C10_Witness ==
    \E c \in Callers, n \in registry :
        /\ req[c].op = "ListAllPods" /\ req[c].pc = "done"
        /\ ~healthy[n]
        /\ mon.pc = "wait" /\ n \in mon.failed
        /\ n \in Served(c, "list")
        /\ FromNode(c, n) # {}

----------------------------------------------------------------------------
(* Placement and the cached health flag *)

\* The step of caller c that sends the create to the node it selected.
SendsCreate(c) ==
    /\ req[c].op = "CreatePod" /\ req[c].pc = "create"
    /\ req'[c].pc = "done"

\* The step of caller c in which the least-pods loop makes n its target.
Selects(c, n) ==
    /\ req[c].op = "CreatePod" /\ req[c].pc = "poll"
    /\ req'[c].sel = n /\ req[c].sel # n

\* The step in which the monitor probes n and gets an answer.
ProbeSucceeds(n) ==
    /\ mon.pc \in {"initial", "pass"} /\ mon'.todo # mon.todo
    /\ Head(mon.todo) = n /\ Healthz(n)

\* C11 as stated: no CreatePod delegates a create to a node whose cached health
\* flag is false.
C11_NoCreateOnUnhealthy ==
    [][\A c \in Callers : SendsCreate(c) => healthy[req[c].sel]]_vars

\* C11: the least-pods loop makes a node its target only in a step in which that
\* node's cached flag is true and the node has just been listed, a false flag
\* becomes true only by a probe of that node that succeeded, and a create of a
\* call without an explicit target goes to the node the loop selected.
C11_SelectsOnlyHealthy ==
    [][/\ \A c \in Callers : \A n \in registry :
            Selects(c, n) =>
                /\ healthy[n]
                /\ calls'[c] = Append(calls[c], Call(n, "list", TRUE, Len(pods[n])))
       /\ \A n \in registry : (~healthy[n] /\ healthy'[n]) => ProbeSucceeds(n)
       /\ \A c \in Callers :
            (SendsCreate(c) /\ req[c].target = NoNode) =>
                /\ req[c].sel \notin req[c].unhealthySeen
                /\ calls'[c][Len(calls'[c])].node = req[c].sel]_vars

\* A call without a target passed over an empty, reachable node whose flag was
\* false and created the pod on the fuller node.
C11_Witness ==
    \E c \in Callers : \E n, m \in registry :
        /\ req[c].op = "CreatePod" /\ req[c].target = NoNode
        /\ req[c].pc = "done" /\ req[c].err = "nil"
        /\ n \in req[c].unhealthySeen /\ reach[n] /\ pods[n] = <<>>
        /\ req[c].sel = m /\ m # n /\ Len(pods[m]) = 2
        /\ calls[c] = <<Call(m, "list", TRUE, 1), Call(m, "create", TRUE, 0)>>

----------------------------------------------------------------------------
(* The cluster summary *)

RECURSIVE SumOver(_, _)
SumOver(f, S) ==
    IF S = {} THEN 0
    ELSE LET x == CHOOSE y \in S : TRUE IN f[x] + SumOver(f, S \ {x})

\* C12: a finished GetClusterSummary has no error; NodeCount is the number of
\* registered nodes; Nodes holds exactly one NodeSummary per registered node;
\* HealthyNodes is the number of nodes whose flag the call read as true; the
\* PodCount of a node is the length of its list, and zero when its list call
\* failed; PodCount is the sum of the per-node PodCounts; RunningPods is the
\* number of pods in phase Running on the nodes that answered, at most PodCount.
C12_SummaryTotals ==
    \A c \in Callers :
        (req[c].op = "GetClusterSummary" /\ req[c].pc = "done") =>
            LET sm == req[c].summary IN
            /\ req[c].err = "nil"
            /\ sm.NodeCount = Cardinality(registry)
            /\ Len(sm.Nodes) = Cardinality(registry)
            /\ \A n \in registry : Cardinality(EntriesOf(c, n)) = 1
            /\ sm.HealthyNodes = Cardinality(req[c].counted)
            /\ Len(calls[c]) = Len(sm.Nodes)
            /\ \A i \in DOMAIN sm.Nodes :
                /\ calls[c][i].node = sm.Nodes[i].Name /\ calls[c][i].kind = "list"
                /\ sm.Nodes[i].PodCount
                     = IF calls[c][i].ok THEN Len(pods[sm.Nodes[i].Name]) ELSE 0
            /\ sm.PodCount = SumOver([i \in DOMAIN sm.Nodes |-> sm.Nodes[i].PodCount],
                                     DOMAIN sm.Nodes)
            /\ sm.RunningPods
                 = SumOver([n \in registry |->
                              Cardinality({ i \in DOMAIN pods[n] : pods[n][i].phase = PodRunning })],
                           Served(c, "list"))
            /\ sm.RunningPods <= sm.PodCount

\* One node failed its list call although it holds two pods and its flag was
\* read as true; the other answered with a running and a pending pod.
C12_Witness ==
    \E c \in Callers : \E n, m \in registry :
        /\ req[c].op = "GetClusterSummary" /\ req[c].pc = "done"
        /\ n # m /\ Len(pods[n]) = 2 /\ Len(pods[m]) = 2
        /\ n \in req[c].counted /\ n \notin Served(c, "list")
        /\ m \in Served(c, "list")
        /\ req[c].summary.NodeCount = 2 /\ req[c].summary.HealthyNodes >= 1
        /\ req[c].summary.PodCount = 2 /\ req[c].summary.RunningPods = 1

----------------------------------------------------------------------------
(* Repeated ListAllPods over nodes that no longer change *)

\* A node changes its reachability before the first call is made.
ReachToggleBefore(n) ==
    /\ \A c \in Callers : req[c].op = "none"
    /\ ReachToggle(n)

InitRepeat == Construct(NodeNames, PodLists)

NextRepeat ==
    \/ \E n \in NodeNames : ReachToggleBefore(n)
    \/ \E c \in Callers : StartListAllPods(c)
    \/ \E c \in Callers : \E n \in NodeNames : ListPodsTask(c, n)
    \/ \E c \in Callers : FanOutReturn(c)

SpecRepeat == InitRepeat /\ [][NextRepeat]_vars

\* C13: two finished ListAllPods calls, made while no node's pods or
\* reachability changed, return the same multiset of pods, origin annotation
\* included, whatever the order of the items.
C13_SameMultiset ==
    \A c, d \in Callers :
        (/\ req[c].op = "ListAllPods" /\ req[c].pc = "done"
         /\ req[d].op = "ListAllPods" /\ req[d].pc = "done") =>
            SeqToBag(req[c].acc) = SeqToBag(req[d].acc)

\* Two calls returned the pods of two answering nodes in different orders, a
\* third node holding pods being unreachable.
C13_Witness ==
    /\ req[1].op = "ListAllPods" /\ req[1].pc = "done"
    /\ req[2].op = "ListAllPods" /\ req[2].pc = "done"
    /\ req[1].acc # req[2].acc
    /\ Len(req[1].acc) >= 3
    /\ \E n \in registry : ~reach[n] /\ pods[n] # <<>>
    /\ Cardinality(Served(1, "list")) = 2

----------------------------------------------------------------------------
(* The create delegated by CreatePod *)

\* The requests of kind "create" in the log of caller c.
Creates(c) == { i \in DOMAIN calls[c] : calls[c][i].kind = "create" }

\* C14: a CreatePod issues no create before it has a target and exactly one
\* create once it has returned with one, the last request of the call, sent to
\* the selected node; the call returns the created pod as the node answered it
\* with a nil error when that create succeeded, and the error with no pod when
\* it failed.
C14_OneCreateVerbatim ==
    \A c \in Callers :
        req[c].op = "CreatePod" =>
            /\ req[c].pc # "done" => Creates(c) = {}
            /\ (req[c].pc = "done" /\ req[c].sel = NoNode) => Creates(c) = {}
            /\ (req[c].pc = "done" /\ req[c].sel # NoNode) =>
                /\ Creates(c) = { Len(calls[c]) }
                /\ calls[c][Len(calls[c])].node = req[c].sel
                /\ IF calls[c][Len(calls[c])].ok
                   THEN req[c].err = "nil" /\ req[c].acc = << PodOf(req[c].key) >>
                   ELSE req[c].err = "CommunicationError" /\ req[c].acc = <<>>

\* The create on the selected node failed and the error was returned, although
\* the other node had been listed, is healthy and reachable and lacks the pod.
C14_Witness ==
    \E c \in Callers : \E m \in registry :
        /\ req[c].op = "CreatePod" /\ req[c].target = NoNode
        /\ req[c].pc = "done" /\ req[c].err = "CommunicationError"
        /\ m # req[c].sel /\ healthy[m] /\ reach[m] /\ ~HasPod(m, req[c].key)
        /\ m \in Served(c, "list")
        /\ Len(calls[c]) = 3
        /\ calls[c][3] = Call(req[c].sel, "create", FALSE, 0)

----------------------------------------------------------------------------
(* DeletePod and GetPodLog after the lookup *)

\* The requests of caller c that delete a pod or open a log stream.
Delegated(c) == { i \in DOMAIN calls[c] : calls[c][i].kind \in {"delete", "log"} }

\* The request DeletePod / GetPodLog delegates.
KindOf(op) == IF op = "DeletePod" THEN "delete" ELSE "log"

\* C15: DeletePod and GetPodLog issue no delete and open no log stream while the
\* scan runs; when the scan found no owner they fail with the not-found error of
\* GetPod, every node asked and none answering, and still have issued none; when
\* it found an owner they issue exactly one delete / log request, after the scan,
\* to the node whose get succeeded.
C15_DelegateOnlyToOwner ==
    \A c \in Callers :
        req[c].op \in {"DeletePod", "GetPodLog"} =>
            /\ req[c].pc \in {"scan", "delegate"} => Delegated(c) = {}
            /\ (req[c].pc = "done" /\ req[c].owner = NoNode) =>
                /\ req[c].err = "NotFound"
                /\ Delegated(c) = {}
                /\ Asked(c, "get") = registry /\ Served(c, "get") = {}
            /\ (req[c].pc = "done" /\ req[c].owner # NoNode) =>
                /\ req[c].err # "NotFound"
                /\ Delegated(c) = { Len(calls[c]) }
                /\ calls[c][Len(calls[c])].kind = KindOf(req[c].op)
                /\ calls[c][Len(calls[c])].node = req[c].owner
                /\ Served(c, "get") = { req[c].owner }

\* DeletePod asked a node that did not answer, found the pod on the second and
\* deleted it there, and only there.
C15_Witness ==
    \E c \in Callers : \E n \in registry :
        /\ req[c].op = "DeletePod" /\ req[c].pc = "done" /\ req[c].err = "nil"
        /\ n # req[c].owner /\ HasPod(n, req[c].key) /\ ~HasPod(req[c].owner, req[c].key)
        /\ calls[c] = << Call(n, "get", FALSE, 0), Call(req[c].owner, "get", TRUE, 1),
                         Call(req[c].owner, "delete", TRUE, 0) >>

----------------------------------------------------------------------------
(* The health checker alone, three nodes, time passing *)

InitProbe == Construct(NodeNames, {<<>>})

NextProbe ==
    \/ \E n \in NodeNames : ReachToggle(n)
    \/ Advance
    \/ MonBoot
    \/ MonProbe
    \/ MonTick

SpecProbe == InitProbe /\ [][NextProbe]_vars

\* The step in which the monitor probes the next client of its pass.
Probes(n) ==
    /\ mon.pc \in {"initial", "pass"} /\ mon'.todo # mon.todo
    /\ Head(mon.todo) = n

\* C16: a probe of node n is one liveness call; when the node answers, healthy
\* becomes true and lastPing the current time; when it does not, healthy becomes
\* false, lastPing stays as it was and the error is handed to pingAll; the
\* fields of the other nodes are untouched.
C16_PingSetsFields ==
    [][\A n \in registry :
         Probes(n) =>
            /\ mon'.probes = [mon.probes EXCEPT ![n] = @ + 1]
            /\ \A m \in registry \ {n} :
                  healthy'[m] = healthy[m] /\ lastPing'[m] = lastPing[m]
            /\ IF reach[n] /\ ~Cancelled
               THEN healthy'[n] /\ lastPing'[n] = now /\ mon'.failed = mon.failed
               ELSE /\ ~healthy'[n] /\ lastPing'[n] = lastPing[n]
                    /\ mon'.failed = mon.failed \cup {n}]_vars

\* A node that answered at time 1 failed its probe at time 2: its flag is false
\* and its lastPing still 1, while another node answered at time 2.
C16_Witness ==
    \E n, m \in registry :
        /\ now = 2 /\ mon.pc = "wait"
        /\ n \in mon.failed /\ ~healthy[n] /\ lastPing[n] = 1
        /\ m \notin mon.failed /\ healthy[m] /\ lastPing[m] = 2

----------------------------------------------------------------------------
(* Aggregator.GetNode, and every operation beside the health checker; the
   nodes' reachability settles before the first request *)

\* aggregator.go:290-298: the client of that name is looked up; an unknown name
\* fails with "node not found", a known one gets one GetNode call whose result
\* is returned.
GetNodeByName(c, name) ==
    /\ Free(c)
    /\ IF name \in registry
       THEN LET r == GetNodeOn(name) IN
            /\ req' = [req EXCEPT ![c] =
                         [Idle EXCEPT !.op = "GetNode", !.pc = "done", !.target = name,
                                      !.acc = r.items,
                                      !.err = IF r.ok THEN "nil" ELSE "CommunicationError"]]
            /\ calls' = [calls EXCEPT ![c] = << Call(name, "node", r.ok, Len(r.items)) >>]
       ELSE /\ req' = [req EXCEPT ![c] =
                         [Idle EXCEPT !.op = "GetNode", !.pc = "done", !.target = name,
                                      !.err = "NodeNotFound"]]
            /\ calls' = [calls EXCEPT ![c] = <<>>]
    /\ UNCHANGED <<registry, healthy, lastPing, now, pods, reach, mon, probedOk, resolved>>

InitFrame == Construct({"A", "B"}, SomeLists)

NextFrame ==
    \/ \E n \in NodeNames : ReachToggleBefore(n)
    \/ MonBoot
    \/ MonProbe
    \/ MonTick
    \/ StartListAllPods(1)
    \/ \E n \in NodeNames : ListPodsTask(1, n)
    \/ StartListAllNodes(1)
    \/ \E n \in NodeNames : GetNodeTask(1, n)
    \/ FanOutReturn(1)
    \/ \E op \in {"GetPod", "DeletePod", "GetPodLog"} : \E key \in PodKeys :
          StartLookup(1, op, key)
    \/ ScanStep(1)
    \/ DeleteDelegate(1)
    \/ LogDelegate(1)
    \/ \E key \in PodKeys : \E target \in {"A", UnknownName, NoNode} :
          StartCreatePod(1, key, target)
    \/ PollStep(1)
    \/ CreateStep(1)
    \/ \E name \in {"A", "B", UnknownName} : GetNodeByName(1, name)
    \/ StartSummary(1)
    \/ SummaryRead(1)
    \/ SummaryCount(1)

SpecFrame == InitFrame /\ [][NextFrame]_vars

\* A step of an Aggregator operation of caller c.
AggregatorStep(c) == req'[c] # req[c] \/ calls'[c] # calls[c]

\* C17: the set of registered nodes never changes; a node's healthy or lastPing
\* changes only in a step in which the monitor probes that node; every step of
\* an Aggregator operation leaves every node's healthy and lastPing as they
\* were, whatever its remote calls answered.
C17_OnlyProbeWritesHealth ==
    [][/\ registry' = registry
       /\ \A n \in registry :
            (healthy'[n] # healthy[n] \/ lastPing'[n] # lastPing[n]) => Probes(n)
       /\ \A c \in Callers :
            AggregatorStep(c) => healthy' = healthy /\ lastPing' = lastPing]_vars

\* A finished operation got no answer from a node whose flag is still true and
\* whose lastPing is still the time of its last successful probe, while the
\* probe of the other node has cleared that node's flag.
C17_Witness ==
    \E c \in Callers : \E n, m \in registry :
        /\ req[c].pc = "done"
        /\ \E i \in DOMAIN calls[c] : calls[c][i].node = n /\ ~calls[c][i].ok
        /\ ~reach[n] /\ healthy[n] /\ lastPing[n] = 1
        /\ m # n /\ ~healthy[m]

----------------------------------------------------------------------------
(* The initial pass of the health checker and the first requests *)

\* The monitor has not finished its initial pingAll.
StartingUp == mon.pc \in {"boot", "initial"}

\* C18 as stated: no Aggregator request is served before the initial pass has
\* probed every node.
C18_ProbedBeforeFirstRequest ==
    \A c \in Callers : req[c].op # "none" => ~StartingUp

\* C18: the monitor begins with a pass over a snapshot of every client and
\* enters the interval loop only when that pass has probed each of them once;
\* until its probe in that pass a node keeps the flag and lastPing of its
\* construction.
C18_InitialPassBeforeLoop ==
    [][/\ (mon.pc = "boot" /\ mon'.pc # "boot") =>
            mon'.pc = "initial" /\ mon'.todo \in Perms(registry)
       /\ (StartingUp /\ ~StartingUp') =>
            /\ mon.pc = "initial" /\ mon'.pc = "wait"
            /\ \A n \in registry : mon'.probes[n] = 1
       /\ StartingUp =>
            \A n \in registry :
                mon.probes[n] = 0 =>
                    healthy[n] = NewNodeClient(n).healthy /\ lastPing[n] = NewNodeClient(n).lastPing
      ]_vars

\* A ListAllPods call has returned while the initial pass has probed one node
\* only: the other node is unreachable and its flag still true.
C18_Witness ==
    \E c \in Callers : \E n \in registry :
        /\ req[c].op = "ListAllPods" /\ req[c].pc = "done"
        /\ mon.pc = "initial" /\ Len(mon.todo) = 1
        /\ Head(mon.todo) = n /\ ~reach[n] /\ healthy[n]
        /\ n \in Asked(c, "list") /\ n \notin Served(c, "list")

----------------------------------------------------------------------------
(* The passes of pingAll over three nodes, beside a caller listing the pods *)

InitPass == Construct(NodeNames, {<<>>})

NextPass ==
    \/ \E n \in NodeNames : ReachToggle(n)
    \/ MonBoot
    \/ MonProbe
    \/ MonTick
    \/ StartListAllPods(1)
    \/ \E n \in NodeNames : ListPodsTask(1, n)
    \/ FanOutReturn(1)

SpecPass == InitPass /\ [][NextPass]_vars

\* The clients of the snapshot not yet probed in the pass under way.
Remaining == Range(mon.todo)

\* C19: during a pass the clients already probed have been probed once and the
\* others not at all; a step of the monitor probes at most one client, the head
\* of what remains, whether or not an earlier probe of the pass failed; the
\* pass ends when every client has been probed exactly once, failed ones
\* included; no step of the monitor touches a caller's call or its result.
C19_EachClientOncePerPass ==
    [][/\ mon.pc \in {"initial", "pass"} =>
            /\ mon.todo # <<>>
            /\ \A n \in registry : mon.probes[n] = IF n \in Remaining THEN 0 ELSE 1
            /\ mon.failed \subseteq registry \ Remaining
       /\ mon.pc = "wait" => \A n \in registry : mon.probes[n] = 1
       /\ mon' # mon =>
            /\ req' = req /\ calls' = calls
            /\ \A n \in registry : mon'.probes[n] # mon.probes[n] =>
                  \/ Probes(n)
                  \/ mon'.pc \in {"initial", "pass"} /\ mon.pc \in {"boot", "wait"}
            /\ mon.pc \in {"initial", "pass"} =>
                  mon'.todo = Tail(mon.todo) /\ mon'.probes[Head(mon.todo)] = 1
      ]_vars

\* A pass of three probes has ended in which two nodes failed and the third
\* answered, while a ListAllPods call that has asked the two failing nodes goes
\* on without an error.
C19_Witness ==
    \E n \in registry :
        /\ mon.pc = "wait"
        /\ mon.failed = registry \ {n}
        /\ \A m \in registry : mon.probes[m] = 1
        /\ healthy[n] /\ lastPing[n] = now
        /\ req[1].op = "ListAllPods" /\ req[1].pc = "fan" /\ req[1].err = "nil"
        /\ Asked(1, "list") = registry \ {n}

----------------------------------------------------------------------------
(* Shutdown: the monitor's context is cancelled while a fan-out is under way *)

InitShutdown == Construct({"A", "B"}, SomeLists)

NextShutdown ==
    \/ \E n \in NodeNames : ReachToggle(n)
    \/ Cancel
    \/ MonBoot
    \/ MonProbe
    \/ MonTick
    \/ MonStop
    \/ StartListAllPods(1)
    \/ \E n \in NodeNames : ListPodsTask(1, n)
    \/ FanOutReturn(1)

\* A probe and a per-node list call end, with an answer or with an error, within
\* the client timeout (part_001:30), and the goroutines are scheduled: weak
\* fairness. The select of RunHealthChecker picks at random among its ready
\* cases, so the ctx.Done() case, ready from the cancellation on whenever the
\* loop waits, is taken in the end: strong fairness.
FairShutdown ==
    /\ WF_vars(MonBoot)
    /\ WF_vars(MonProbe)
    /\ SF_vars(MonStop)
    /\ \A n \in NodeNames : WF_vars(ListPodsTask(1, n))
    /\ WF_vars(FanOutReturn(1))

SpecShutdown == InitShutdown /\ [][NextShutdown]_vars /\ FairShutdown

\* C20: once the context is cancelled the monitor eventually returns from its
\* loop; after it has returned it starts no pass and probes nothing; and a
\* ListAllPods under way at or after the cancellation eventually returns.
C20_CancelTerminates ==
    /\ Cancelled ~> (mon.pc = "stopped")
    /\ [][mon.pc = "stopped" => mon' = mon /\ healthy' = healthy /\ lastPing' = lastPing]_vars
    /\ (Cancelled /\ req[1].pc = "fan") ~> (req[1].pc = "done")

\* The monitor has returned after a pass under the cancelled context, in which
\* the probes of two reachable nodes failed, and the ListAllPods call has returned.
C20_Witness ==
    /\ Cancelled /\ mon.pc = "stopped"
    /\ mon.failed = registry
    /\ \A n \in registry : reach[n] /\ ~healthy[n]
    /\ req[1].op = "ListAllPods" /\ req[1].pc = "done"
    /\ Served(1, "list") = registry

----------------------------------------------------------------------------
(* Two CreatePod calls at once, two nodes *)

InitRace == Construct({"A", "B"}, PodLists)

NextRace ==
    \/ \E n \in NodeNames : ReachToggle(n)
    \/ \E c \in Callers : \E key \in PodKeys : StartCreatePod(c, key, NoNode)
    \/ \E c \in Callers : PollStep(c)
    \/ \E c \in Callers : CreateStep(c)

SpecRace == InitRace /\ [][NextRace]_vars

\* The (node, count) pairs that the successful list calls of caller c returned.
PolledCounts(c) == { <<calls[c][i].node, calls[c][i].count>> : i \in Polled(c) }

\* C21: the registry lock never holds a CreatePod back: a free caller can start
\* one, and a call in its poll or at its create can take its next step, whatever
\* the other caller's call is doing.
C21_CreatePodsNotSerialized ==
    \A c \in Callers :
        /\ Free(c) => \A key \in PodKeys : ENABLED StartCreatePod(c, key, NoNode)
        /\ (req[c].op = "CreatePod" /\ req[c].pc = "poll") => ENABLED PollStep(c)
        /\ (req[c].op = "CreatePod" /\ req[c].pc = "create") => ENABLED CreateStep(c)

\* Both calls polled both nodes empty, both selected the same node, and both
\* created their pod on it: it holds two pods and the other node none.
C21_Witness ==
    \E n, m \in registry :
        /\ n # m /\ Len(pods[n]) = 2 /\ pods[m] = <<>>
        /\ \A c \in Callers :
            /\ req[c].op = "CreatePod" /\ req[c].target = NoNode
            /\ req[c].pc = "done" /\ req[c].err = "nil" /\ req[c].sel = n
            /\ PolledCounts(c) = { <<n, 0>>, <<m, 0>> }
        /\ req[1].key # req[2].key

----------------------------------------------------------------------------
(* The order of one node's pods in the merged list *)

\* The items of the result of c that carry the name of node n, in result order.
FromNodeInOrder(c, n) == SelectSeq(req[c].acc, LAMBDA p : p.ann = n)

\* C22: in the result of a ListAllPods, under way or finished, the pods of each
\* node that answered are that node's list, in that node's order, whatever the
\* order in which the goroutines finished.
C22_NodeOrderKept ==
    \A c \in Callers :
        req[c].op = "ListAllPods" =>
            \A n \in Served(c, "list") :
                FromNodeInOrder(c, n) = DecorateAll(pods[n], n)

\* Two nodes hold the same two pods in opposite orders, and the node whose
\* goroutine finished last comes last in the result.
C22_Witness ==
    \E c \in Callers : \E n, m \in registry :
        /\ req[c].op = "ListAllPods" /\ req[c].pc = "done"
        /\ Len(pods[n]) = 2 /\ Len(pods[m]) = 2 /\ pods[n] # pods[m]
        /\ req[c].acc = DecorateAll(pods[m], m) \o DecorateAll(pods[n], n)
        /\ Len(calls[c]) = 3 /\ calls[c][3].node = n /\ calls[c][2].node = m

----------------------------------------------------------------------------
(* The health fields from construction on *)

\* Node n has been probed at least once since construction.
ProbedOnce(n) ==
    /\ mon.pc # "boot"
    /\ mon.pc = "initial" => mon.probes[n] = 1

\* C23: a node that no probe has reached yet has healthy true and lastPing
\* zero; healthy turns false only in a step in which a probe of that node
\* fails; lastPing changes only in a step in which a probe of that node
\* succeeds, and is never set back to zero.
C23_DefaultsUntilProbed ==
    [][/\ \A n \in registry : ~ProbedOnce(n) => healthy[n] /\ lastPing[n] = 0
       /\ \A n \in registry :
            (healthy[n] /\ ~healthy'[n]) => Probes(n) /\ ~Healthz(n)
       /\ \A n \in registry :
            lastPing'[n] # lastPing[n] => Probes(n) /\ Healthz(n) /\ lastPing'[n] # 0
      ]_vars

\* The initial pass is under way at time 2: one node has failed its probe, one
\* has answered, and the third, not probed yet and unreachable, is still healthy
\* with a zero lastPing.
C23_Witness ==
    \E n, m, k \in registry :
        /\ mon.pc = "initial" /\ mon.todo = << k >> /\ now = 2
        /\ ~healthy[n] /\ lastPing[n] = 0
        /\ healthy[m] /\ lastPing[m] = 2
        /\ ~reach[k] /\ healthy[k] /\ lastPing[k] = 0

----------------------------------------------------------------------------
(* The reads that return pods: ListAllPods and GetPod, two nodes *)

InitRead == Construct({"A", "B"}, PodLists)

NextRead ==
    \/ \E n \in NodeNames : ReachToggle(n)
    \/ StartListAllPods(1)
    \/ \E n \in NodeNames : ListPodsTask(1, n)
    \/ FanOutReturn(1)
    \/ \E key \in PodKeys : StartLookup(1, "GetPod", key)
    \/ ScanStep(1)

SpecRead == InitRead /\ [][NextRead]_vars

\* Node n holds pod p under some value of the provenance annotation.
HoldsUpToAnn(n, p) ==
    \E i \in DOMAIN pods[n] : [pods[n][i] EXCEPT !.ann = p.ann] = p

\* C24: every pod in the result of a ListAllPods carries the name of a node
\* that answered this call's list request and that holds the pod, and the pod a
\* GetPod returns carries the name of the node whose get succeeded, whatever
\* the remote node had put in that annotation.
C24_ProvenanceOverwritten ==
    \A c \in Callers :
        /\ req[c].op = "ListAllPods" =>
              \A i \in DOMAIN req[c].acc :
                  /\ req[c].acc[i].ann \in Served(c, "list")
                  /\ HoldsUpToAnn(req[c].acc[i].ann, req[c].acc[i])
        /\ (req[c].op = "GetPod" /\ req[c].pc = "done" /\ req[c].err = "nil") =>
              /\ Len(req[c].acc) = 1
              /\ req[c].acc[1].ann = calls[c][Len(calls[c])].node
              /\ calls[c][Len(calls[c])].ok
              /\ HoldsUpToAnn(req[c].acc[1].ann, req[c].acc[1])

\* A node sent one pod without the annotation and one with a foreign value;
\* both came back from ListAllPods carrying the node's name.
C24_Witness ==
    \E c \in Callers : \E n \in registry :
        /\ req[c].op = "ListAllPods" /\ req[c].pc = "done"
        /\ \E i, j \in DOMAIN pods[n] : pods[n][i].ann = NoAnn /\ pods[n][j].ann = "elsewhere"
        /\ n \in Served(c, "list")
        /\ FromNodeInOrder(c, n) = DecorateAll(pods[n], n)
        /\ \A i \in DOMAIN req[c].acc : req[c].acc[i].ann \in registry

----------------------------------------------------------------------------
(* The two reads of the health flag in GetClusterSummary *)

\* The entries of the summary of c that report their node healthy.
HealthyEntries(c) ==
    { i \in DOMAIN req[c].summary.Nodes : req[c].summary.Nodes[i].Healthy }

\* C25: in every summary returned, HealthyNodes is the number of entries of
\* Nodes whose Healthy field is true.
C25_HealthyNodesMatchEntries ==
    \A c \in Callers :
        (req[c].op = "GetClusterSummary" /\ req[c].pc = "done") =>
            req[c].summary.HealthyNodes = Cardinality(HealthyEntries(c))

----------------------------------------------------------------------------
(* The fan-out waits for its goroutines *)

\* The step in which the goroutine of caller c for node n makes its request.
TaskRuns(c, n) ==
    /\ req[c].pc = "fan" /\ n \in req[c].pending
    /\ req'[c].pending = req[c].pending \ {n}

\* The request kind of a fan-out operation.
FanKind(op) == IF op = "ListAllPods" THEN "list" ELSE "node"

\* C26: a fan-out under way has asked exactly the nodes whose goroutine has
\* finished, each once; it returns only when none is pending, having asked
\* every registered node once; a goroutine's request is answered according to
\* its node's reachability alone, whatever the other goroutines met; and once
\* the call has returned its result and its requests no longer change.
C26_WaitsForEveryTask ==
    [][\A c \in Callers :
         req[c].op \in {"ListAllPods", "ListAllNodes"} =>
            /\ Len(calls[c]) = Cardinality(registry \ req[c].pending)
            /\ Asked(c, FanKind(req[c].op)) = registry \ req[c].pending
            /\ req[c].pc = "done" => req[c].pending = {}
            /\ \A n \in registry :
                  TaskRuns(c, n) =>
                      /\ Len(calls'[c]) = Len(calls[c]) + 1
                      /\ calls'[c][Len(calls'[c])].node = n
                      /\ calls'[c][Len(calls'[c])].ok = Transport(n)
            /\ (req[c].pc = "done" /\ req'[c].pc = "done") =>
                  req'[c].acc = req[c].acc /\ calls'[c] = calls[c]
      ]_vars

\* The first goroutine of a ListAllPods failed, the two that finished after it
\* were answered, and the call has returned their pods.
C26_Witness ==
    \E c \in Callers :
        /\ req[c].op = "ListAllPods" /\ req[c].pc = "done" /\ req[c].pending = {}
        /\ Len(calls[c]) = 3
        /\ ~calls[c][1].ok /\ calls[c][2].ok /\ calls[c][3].ok
        /\ pods[calls[c][1].node] # <<>>
        /\ Len(req[c].acc) = calls[c][2].count + calls[c][3].count
        /\ Len(req[c].acc) >= 2

----------------------------------------------------------------------------
(* The least-pods poll, node by node *)

\* The step of the poll of caller c that visits node n.
Visits(c, n) ==
    /\ req[c].op = "CreatePod" /\ req[c].target = NoNode /\ req[c].pc = "poll"
    /\ req'[c] # req[c]
    /\ req[c].order[req[c].idx] = n

\* C27: the poll of a CreatePod without a target sends no request to a node
\* whose flag is false and leaves its target as it is; a node whose flag is
\* true and whose list fails is asked once and does not become the target; once
\* a healthy node has answered there is a target; after the poll the target is
\* a node that answered; the call ends with exactly one create when a node
\* answered, and with NoHealthyNodes and no create when none did.
C27_PollSkipsAndSelects ==
    [][\A c \in Callers :
         (req[c].op = "CreatePod" /\ req[c].target = NoNode) =>
            /\ \A n \in registry :
                  Visits(c, n) =>
                      /\ ~healthy[n] =>
                            calls'[c] = calls[c] /\ req'[c].sel = req[c].sel
                      /\ (healthy[n] /\ ~Transport(n)) =>
                            /\ calls'[c] = Append(calls[c], Call(n, "list", FALSE, 0))
                            /\ req'[c].sel = req[c].sel
                      /\ (healthy[n] /\ Transport(n)) =>
                            /\ calls'[c] = Append(calls[c], Call(n, "list", TRUE, Len(pods[n])))
                            /\ req'[c].sel \in Served(c, "list") \cup {n}
            /\ req[c].pc \in {"create", "done"} =>
                  /\ Asked(c, "list") = registry \ req[c].unhealthySeen
                  /\ IF Served(c, "list") = {}
                     THEN req[c].sel = NoNode
                     ELSE req[c].sel \in Served(c, "list")
            /\ req[c].pc = "done" =>
                  IF Served(c, "list") = {}
                  THEN req[c].err = "NoHealthyNodes" /\ Creates(c) = {}
                  ELSE req[c].err # "NoHealthyNodes" /\ Cardinality(Creates(c)) = 1
      ]_vars

\* Both nodes had their flag true and only one answered the list; it got the
\* create although the other, unreachable, holds fewer pods.
C27_Witness ==
    \E c \in Callers : \E n, m \in registry :
        /\ req[c].op = "CreatePod" /\ req[c].target = NoNode
        /\ req[c].pc = "done" /\ req[c].err = "nil"
        /\ req[c].unhealthySeen = {}
        /\ calls[c] = << Call(n, "list", FALSE, 0), Call(m, "list", TRUE, 1),
                         Call(m, "create", TRUE, 0) >>
        /\ pods[n] = <<>> /\ Len(pods[m]) = 2
====
